---------------------------- MODULE Spec2Model ----------------------------
(***************************************************************************)
(* SwiftCart storefront (src/src/App.tsx): the commerce state engine of    *)
(* the App component -- cart, coupon registry and applied coupon, pricing, *)
(* checkout, order ledger and order status.                                *)
(*                                                                         *)
(* Representation.                                                         *)
(*  - A React state cell is a variable; a handler is one action (React     *)
(*    runs a handler and flushes its state updates before the next event). *)
(*  - A Product keeps the fields the handlers read: id and price.  name,   *)
(*    image and category are carried along unread by every handler.        *)
(*  - Money.  Prices are the integers of the source.  subtotal,            *)
(*    discountAmount, cartTotal, Order.total and revenue are fixed-point   *)
(*    numbers counted in 1/Unit of the currency unit, because             *)
(*    (subtotal * discount) / 100 is a fraction in JavaScript: 2199.9 is   *)
(*    held as 219990.  The division by 100 is then exact.                  *)
(*  - A string is the sequence of its character codes, so toUpperCase is   *)
(*    computed character by character.                                     *)
(*  - Math.random() and new Date() are nondeterministic choices.           *)
(*  - Presentation state that no handler of the engine reads is left out:  *)
(*    isCartBouncing and its 300 ms timer, searchQuery (every product card *)
(*    is taken as shown), the drafts of the forms (a form's content is the *)
(*    input of its submit handler), loginForm and loginError.              *)
(*                                                                         *)
(* Two specifications.  Spec calls the handlers directly, in any order and *)
(* with any argument, as a caller of the functions could.  SpecUI lets a   *)
(* handler run only through a control that the current render shows.       *)
(* Both explore sessions of a bounded number of events.                    *)
(***************************************************************************)
EXTENDS Integers, Sequences, FiniteSets

VARIABLES
    products,             \* useState<Product[]>(INITIAL_PRODUCTS)
    cart,                 \* useState<CartItem[]>([])
    wishlist,             \* useState<number[]>([])
    orders,               \* useState<Order[]>([])
    coupons,              \* useState<Coupon[]>([WELCOME10])
    appliedCoupon,        \* useState<Coupon | null>(null)
    couponInput,          \* useState('')
    couponError,          \* useState('')
    isCartOpen,           \* useState(false)
    showCheckoutSuccess,  \* useState(false)
    revenue,              \* useState(0)
    totalOrders,          \* useState(0)
    view,                 \* useState('shop')
    isAdminAuthenticated, \* useState(false)
    successTimers,        \* pending setTimeout(..., 3000) callbacks of checkout
    lastAction,           \* the handler that ran last (observer, not program state)
    stepsLeft             \* handler runs left in the explored session (observer)

vars == <<products, cart, wishlist, orders, coupons, appliedCoupon, couponInput,
          couponError, isCartOpen, showCheckoutSuccess, revenue, totalOrders,
          view, isAdminAuthenticated, successTimers, lastAction, stepsLeft>>

-----------------------------------------------------------------------------
(* Bounds of the exploration *)

\* a session of direct handler calls is explored for this many calls
MaxSteps == 5
\* a session at the user interface is explored for this many events
MaxUISteps == 9
\* the shopper and the administrator act on catalog products 1..MaxProductId
MaxProductId == 2
\* Math.random() yields one of this many distinct order identifiers
MaxOrderId == 2
\* largest quantity of a line of a cart filled before the session starts
MaxQuantity == 2
\* handler runs of a session that starts from a filled cart
MaxCartSteps == 2

-----------------------------------------------------------------------------
(* Helpers standing for JavaScript built-ins *)

\* one currency unit in the fixed-point representation of money
Unit == 100

\* the JavaScript null: a value no Coupon equals
null == [null |-> TRUE]

Max(a, b) == IF a >= b THEN a ELSE b

\* Array.prototype.filter
Filter(s, Keep(_)) == SelectSeq(s, Keep)

\* Array.prototype.map
Map(s, F(_)) == [i \in 1..Len(s) |-> F(s[i])]

\* String.prototype.toUpperCase on one character code: a-z (97..122) -> A-Z
UpperChar(c) == IF c >= 97 /\ c <= 122 THEN c - 32 ELSE c

\* String.prototype.toUpperCase
toUpperCase(s) == [i \in 1..Len(s) |-> UpperChar(s[i])]

\* "WELCOME10"
WELCOME10 == <<87, 69, 76, 67, 79, 77, 69, 49, 48>>
\* "welcome10"
welcome10 == <<119, 101, 108, 99, 111, 109, 101, 49, 48>>
\* "Save"
Save == <<83, 97, 118, 101>>

Statuses == {"Pending", "Shipped", "Delivered", "Returned"}

-----------------------------------------------------------------------------
(* Initial state *)

INITIAL_PRODUCTS ==
    << [id |-> 1, price |-> 12999],
       [id |-> 2, price |-> 4500],
       [id |-> 3, price |-> 2999],
       [id |-> 4, price |-> 899],
       [id |-> 5, price |-> 1200] >>

InitApp ==
    /\ products = INITIAL_PRODUCTS
    /\ cart = <<>>
    /\ wishlist = <<>>
    /\ orders = <<>>
    /\ coupons = << [code |-> WELCOME10, discount |-> 10, isActive |-> TRUE] >>
    /\ appliedCoupon = null
    /\ couponInput = <<>>
    /\ couponError = ""
    /\ isCartOpen = FALSE
    /\ showCheckoutSuccess = FALSE
    /\ revenue = 0
    /\ totalOrders = 0
    /\ view = "shop"
    /\ isAdminAuthenticated = FALSE
    /\ successTimers = 0
    /\ lastAction = "init"

Init == InitApp /\ stepsLeft = MaxSteps

\* a handler runs: the observer records it
Ran(name) ==
    /\ stepsLeft > 0
    /\ stepsLeft' = stepsLeft - 1
    /\ lastAction' = name

-----------------------------------------------------------------------------
(* Derived values (recomputed on every render) *)

RECURSIVE SumQuantity(_)
SumQuantity(c) ==
    IF c = <<>> THEN 0 ELSE Head(c).quantity + SumQuantity(Tail(c))

RECURSIVE SumLines(_)
SumLines(c) ==
    IF c = <<>> THEN 0
    ELSE Head(c).price * Head(c).quantity + SumLines(Tail(c))

cartCountOf(c) == SumQuantity(c)
cartCount == cartCountOf(cart)

\* mutant: the quantity of a line is not counted
RECURSIVE SumPrices(_)
SumPrices(c) ==
    IF c = <<>> THEN 0 ELSE Head(c).price + SumPrices(Tail(c))

subtotalOf_IgnoresQuantity(c) == Unit * SumPrices(c)

subtotalOf(c) == Unit * SumLines(c)
subtotal == subtotalOf(cart)

discountAmountOf(c, coupon) ==
    IF coupon = null THEN 0
    ELSE (subtotalOf(c) * coupon.discount) \div 100
discountAmount == discountAmountOf(cart, appliedCoupon)

cartTotalOf(c, coupon) == subtotalOf(c) - discountAmountOf(c, coupon)
cartTotal == cartTotalOf(cart, appliedCoupon)

-----------------------------------------------------------------------------
(* Cart handlers *)

\* mutant: a line is appended without looking for an existing one
addToCartResult_AlwaysAppends(prevCart, product) ==
    Append(prevCart, [id |-> product.id, price |-> product.price,
                      quantity |-> 1])

addToCartResult(prevCart, product) ==
    IF \E i \in 1..Len(prevCart) : prevCart[i].id = product.id
    THEN Map(prevCart, LAMBDA item :
             IF item.id = product.id
             THEN [item EXCEPT !.quantity = item.quantity + 1]
             ELSE item)
    ELSE Append(prevCart, [id |-> product.id, price |-> product.price,
                           quantity |-> 1])

\* mutant: a product put in the cart is taken off the wishlist
addToCart_Unlists(product) ==
    /\ cart' = addToCartResult(cart, product)
    /\ wishlist' = Filter(wishlist, LAMBDA id : id # product.id)
    /\ Ran("addToCart")
    /\ UNCHANGED <<products, orders, coupons, appliedCoupon,
                   couponInput, couponError, isCartOpen, showCheckoutSuccess,
                   revenue, totalOrders, view, isAdminAuthenticated,
                   successTimers>>

addToCart(product) ==
    /\ cart' = addToCartResult(cart, product)
    /\ Ran("addToCart")
    /\ UNCHANGED <<products, wishlist, orders, coupons, appliedCoupon,
                   couponInput, couponError, isCartOpen, showCheckoutSuccess,
                   revenue, totalOrders, view, isAdminAuthenticated,
                   successTimers>>

\* mutant: the lines after the removed one are dropped with it
removeFromCartResult_Truncates(prevCart, productId) ==
    IF \E i \in 1..Len(prevCart) : prevCart[i].id = productId
    THEN SubSeq(prevCart, 1,
                (CHOOSE i \in 1..Len(prevCart) : prevCart[i].id = productId) - 1)
    ELSE prevCart

removeFromCartResult(prevCart, productId) ==
    Filter(prevCart, LAMBDA item : item.id # productId)

removeFromCart(productId) ==
    /\ cart' = removeFromCartResult(cart, productId)
    /\ Ran("removeFromCart")
    /\ UNCHANGED <<products, wishlist, orders, coupons, appliedCoupon,
                   couponInput, couponError, isCartOpen, showCheckoutSuccess,
                   revenue, totalOrders, view, isAdminAuthenticated,
                   successTimers>>

\* mutant: the floor is applied to the delta, not to the new quantity
updateQuantityResult_FloorsDelta(prevCart, productId, delta) ==
    Map(prevCart, LAMBDA item :
        IF item.id = productId
        THEN [item EXCEPT !.quantity = item.quantity + Max(1, delta)]
        ELSE item)

\* mutant: the quantity is not floored at 1
updateQuantityResult_NoFloor(prevCart, productId, delta) ==
    Map(prevCart, LAMBDA item :
        IF item.id = productId
        THEN [item EXCEPT !.quantity = item.quantity + delta]
        ELSE item)

updateQuantityResult(prevCart, productId, delta) ==
    Map(prevCart, LAMBDA item :
        IF item.id = productId
        THEN [item EXCEPT !.quantity = Max(1, item.quantity + delta)]
        ELSE item)

\* mutant: the order's items alias the cart lines and the quantity is
\* changed in place
updateQuantity_InPlace(productId, delta) ==
    /\ cart' = updateQuantityResult(cart, productId, delta)
    /\ orders' = Map(orders, LAMBDA order :
                     [order EXCEPT !.items =
                         updateQuantityResult(order.items, productId, delta)])
    /\ Ran("updateQuantity")
    /\ UNCHANGED <<products, wishlist, coupons, appliedCoupon, couponInput,
                   couponError, isCartOpen, showCheckoutSuccess, revenue,
                   totalOrders, view, isAdminAuthenticated, successTimers>>

updateQuantity(productId, delta) ==
    /\ cart' = updateQuantityResult(cart, productId, delta)
    /\ Ran("updateQuantity")
    /\ UNCHANGED <<products, wishlist, orders, coupons, appliedCoupon,
                   couponInput, couponError, isCartOpen, showCheckoutSuccess,
                   revenue, totalOrders, view, isAdminAuthenticated,
                   successTimers>>

-----------------------------------------------------------------------------
(* Checkout and the order ledger *)

\* mutant: the order's total ignores the applied coupon
newOrder_NoDiscount(id, date) ==
    [id |-> id, date |-> date, items |-> cart, total |-> subtotalOf(cart),
     status |-> "Pending"]

\* new Date().toLocaleString(): the clock does not run backwards, and two
\* checkouts may fall in the same second
DateChoices ==
    IF orders = <<>> THEN {1}
    ELSE {Head(orders).date, Head(orders).date + 1}

newOrder(id, date) ==
    [id |-> id, date |-> date, items |-> cart, total |-> cartTotal,
     status |-> "Pending"]

\* mutant: no guard on the empty cart
checkout_NoGuard ==
    /\ Ran("checkout")
    /\ \E id \in 1..MaxOrderId :
         \E date \in DateChoices :
           orders' = <<newOrder(id, date)>> \o orders
    /\ revenue' = revenue + cartTotal
    /\ totalOrders' = totalOrders + 1
    /\ showCheckoutSuccess' = TRUE
    /\ cart' = <<>>
    /\ successTimers' = successTimers + 1
    /\ UNCHANGED <<products, wishlist, coupons, appliedCoupon, couponInput,
                   couponError, isCartOpen, view, isAdminAuthenticated>>

\* mutant: the order counter is raised before the guard on the empty cart
checkout_CountsEmpty ==
    /\ Ran("checkout")
    /\ totalOrders' = totalOrders + 1
    /\ IF Len(cart) = 0
       THEN UNCHANGED <<products, cart, wishlist, orders, coupons,
                        appliedCoupon, couponInput, couponError, isCartOpen,
                        showCheckoutSuccess, revenue, view,
                        isAdminAuthenticated, successTimers>>
       ELSE /\ \E id \in 1..MaxOrderId :
                 \E date \in DateChoices :
                   orders' = <<newOrder(id, date)>> \o orders
            /\ revenue' = revenue + cartTotal
            /\ showCheckoutSuccess' = TRUE
            /\ cart' = <<>>
            /\ successTimers' = successTimers + 1
            /\ UNCHANGED <<products, wishlist, coupons, appliedCoupon,
                           couponInput, couponError, isCartOpen, view,
                           isAdminAuthenticated>>

\* mutant: a completed checkout also clears the applied coupon
checkout_ClearsCoupon ==
    /\ Ran("checkout")
    /\ IF Len(cart) = 0
       THEN UNCHANGED <<products, cart, wishlist, orders, coupons,
                        appliedCoupon, couponInput, couponError, isCartOpen,
                        showCheckoutSuccess, revenue, totalOrders, view,
                        isAdminAuthenticated, successTimers>>
       ELSE /\ \E id \in 1..MaxOrderId :
                 \E date \in DateChoices :
                   orders' = <<newOrder(id, date)>> \o orders
            /\ revenue' = revenue + cartTotal
            /\ totalOrders' = totalOrders + 1
            /\ showCheckoutSuccess' = TRUE
            /\ cart' = <<>>
            /\ appliedCoupon' = null
            /\ successTimers' = successTimers + 1
            /\ UNCHANGED <<products, wishlist, coupons,
                           couponInput, couponError, isCartOpen, view,
                           isAdminAuthenticated>>

checkout ==
    /\ Ran("checkout")
    /\ IF Len(cart) = 0
       THEN UNCHANGED <<products, cart, wishlist, orders, coupons,
                        appliedCoupon, couponInput, couponError, isCartOpen,
                        showCheckoutSuccess, revenue, totalOrders, view,
                        isAdminAuthenticated, successTimers>>
       ELSE /\ \E id \in 1..MaxOrderId :
                 \E date \in DateChoices :
                   orders' = <<newOrder(id, date)>> \o orders
            /\ revenue' = revenue + cartTotal
            /\ totalOrders' = totalOrders + 1
            /\ showCheckoutSuccess' = TRUE
            /\ cart' = <<>>
            /\ successTimers' = successTimers + 1
            /\ UNCHANGED <<products, wishlist, coupons, appliedCoupon,
                           couponInput, couponError, isCartOpen, view,
                           isAdminAuthenticated>>

\* the callback of setTimeout(..., 3000) in checkout
checkoutTimeout ==
    /\ successTimers > 0
    /\ successTimers' = successTimers - 1
    /\ showCheckoutSuccess' = FALSE
    /\ isCartOpen' = FALSE
    /\ Ran("checkoutTimeout")
    /\ UNCHANGED <<products, cart, wishlist, orders, coupons, appliedCoupon,
                   couponInput, couponError, revenue, totalOrders, view,
                   isAdminAuthenticated>>

\* mutant: a forward-only guard, an order never moves back to Pending
updateOrderStatusResult_ForwardOnly(prev, orderId, newStatus) ==
    Map(prev, LAMBDA order :
        IF order.id = orderId /\ newStatus # "Pending"
        THEN [order EXCEPT !.status = newStatus]
        ELSE order)

\* mutant: filter instead of map, the matching order is dropped
updateOrderStatusResult_Filter(prev, orderId, newStatus) ==
    Filter(prev, LAMBDA order : order.id # orderId)

updateOrderStatusResult(prev, orderId, newStatus) ==
    Map(prev, LAMBDA order :
        IF order.id = orderId THEN [order EXCEPT !.status = newStatus]
        ELSE order)

\* mutant: a move to Returned refunds the order out of the revenue
updateOrderStatus_Refunds(orderId, newStatus) ==
    /\ orders' = updateOrderStatusResult(orders, orderId, newStatus)
    /\ revenue' =
          IF newStatus = "Returned"
             /\ \E i \in 1..Len(orders) : orders[i].id = orderId
          THEN revenue
               - orders[CHOOSE i \in 1..Len(orders) : orders[i].id = orderId].total
          ELSE revenue
    /\ Ran("updateOrderStatus")
    /\ UNCHANGED <<products, cart, wishlist, coupons, appliedCoupon,
                   couponInput, couponError, isCartOpen, showCheckoutSuccess,
                   totalOrders, view, isAdminAuthenticated,
                   successTimers>>

updateOrderStatus(orderId, newStatus) ==
    /\ orders' = updateOrderStatusResult(orders, orderId, newStatus)
    /\ Ran("updateOrderStatus")
    /\ UNCHANGED <<products, cart, wishlist, coupons, appliedCoupon,
                   couponInput, couponError, isCartOpen, showCheckoutSuccess,
                   revenue, totalOrders, view, isAdminAuthenticated,
                   successTimers>>

-----------------------------------------------------------------------------
(* Coupons *)

InvalidCoupon == "Invalid or inactive coupon code"

\* Array.prototype.find: the first element that passes, or null
Find(s, Test(_)) ==
    IF \E i \in 1..Len(s) : Test(s[i])
    THEN s[CHOOSE i \in 1..Len(s) :
               Test(s[i]) /\ \A j \in 1..(i - 1) : ~Test(s[j])]
    ELSE null

\* mutant: the codes are compared as typed
couponMatches_CaseSensitive(c, input) ==
    c.code = input /\ c.isActive

couponMatches(c, input) ==
    toUpperCase(c.code) = toUpperCase(input) /\ c.isActive

findCoupon(registry, input) ==
    Find(registry, LAMBDA c : couponMatches(c, input))

\* onChange of the coupon text field
setCouponInput(text) ==
    /\ couponInput' = text
    /\ Ran("setCouponInput")
    /\ UNCHANGED <<products, cart, wishlist, orders, coupons, appliedCoupon,
                   couponError, isCartOpen, showCheckoutSuccess, revenue,
                   totalOrders, view, isAdminAuthenticated, successTimers>>

\* mutant: an accepted code leaves the error message of the last attempt
handleApplyCoupon_KeepsError ==
    /\ Ran("handleApplyCoupon")
    /\ IF findCoupon(coupons, couponInput) # null
       THEN /\ appliedCoupon' = findCoupon(coupons, couponInput)
            /\ couponInput' = <<>>
            /\ UNCHANGED couponError
       ELSE /\ couponError' = InvalidCoupon
            /\ UNCHANGED <<appliedCoupon, couponInput>>
    /\ UNCHANGED <<products, cart, wishlist, orders, coupons, isCartOpen,
                   showCheckoutSuccess, revenue, totalOrders, view,
                   isAdminAuthenticated, successTimers>>

\* mutant: a rejected code also takes the applied coupon away
handleApplyCoupon_FailureClears ==
    /\ Ran("handleApplyCoupon")
    /\ IF findCoupon(coupons, couponInput) # null
       THEN /\ appliedCoupon' = findCoupon(coupons, couponInput)
            /\ couponError' = ""
            /\ couponInput' = <<>>
       ELSE /\ couponError' = InvalidCoupon
            /\ appliedCoupon' = null
            /\ UNCHANGED couponInput
    /\ UNCHANGED <<products, cart, wishlist, orders, coupons, isCartOpen,
                   showCheckoutSuccess, revenue, totalOrders, view,
                   isAdminAuthenticated, successTimers>>

handleApplyCoupon ==
    /\ Ran("handleApplyCoupon")
    /\ IF findCoupon(coupons, couponInput) # null
       THEN /\ appliedCoupon' = findCoupon(coupons, couponInput)
            /\ couponError' = ""
            /\ couponInput' = <<>>
       ELSE /\ couponError' = InvalidCoupon
            /\ UNCHANGED <<appliedCoupon, couponInput>>
    /\ UNCHANGED <<products, cart, wishlist, orders, coupons, isCartOpen,
                   showCheckoutSuccess, revenue, totalOrders, view,
                   isAdminAuthenticated, successTimers>>

\* onClick of the remove-coupon button: setAppliedCoupon(null)
removeAppliedCoupon ==
    /\ appliedCoupon' = null
    /\ Ran("removeAppliedCoupon")
    /\ UNCHANGED <<products, cart, wishlist, orders, coupons, couponInput,
                   couponError, isCartOpen, showCheckoutSuccess, revenue,
                   totalOrders, view, isAdminAuthenticated, successTimers>>

\* Number(text) for the text of a type="number" field: an optional minus
\* sign (45) and decimal digits (48..57)
RECURSIVE Digits(_)
Digits(s) ==
    IF s = <<>> THEN 0
    ELSE 10 * Digits(SubSeq(s, 1, Len(s) - 1)) + (s[Len(s)] - 48)

Number(text) ==
    IF text # <<>> /\ Head(text) = 45 THEN 0 - Digits(Tail(text))
    ELSE Digits(text)

\* mutant: the code is stored as typed
handleAddCoupon_KeepsCase(code, discount) ==
    /\ Ran("handleAddCoupon")
    /\ IF code = <<>> \/ discount = <<>>
       THEN UNCHANGED coupons
       ELSE coupons' = Append(coupons, [code |-> code,
                                        discount |-> Number(discount),
                                        isActive |-> TRUE])
    /\ UNCHANGED <<products, cart, wishlist, orders, appliedCoupon,
                   couponInput, couponError, isCartOpen, showCheckoutSuccess,
                   revenue, totalOrders, view, isAdminAuthenticated,
                   successTimers>>

\* newCoupon = { code, discount } is the content of the form at submit
handleAddCoupon(code, discount) ==
    /\ Ran("handleAddCoupon")
    /\ IF code = <<>> \/ discount = <<>>
       THEN UNCHANGED coupons
       ELSE coupons' = Append(coupons, [code |-> toUpperCase(code),
                                        discount |-> Number(discount),
                                        isActive |-> TRUE])
    /\ UNCHANGED <<products, cart, wishlist, orders, appliedCoupon,
                   couponInput, couponError, isCartOpen, showCheckoutSuccess,
                   revenue, totalOrders, view, isAdminAuthenticated,
                   successTimers>>

toggleCouponStatus(code) ==
    /\ coupons' = Map(coupons, LAMBDA c :
                      IF c.code = code
                      THEN [c EXCEPT !.isActive = ~c.isActive] ELSE c)
    /\ Ran("toggleCouponStatus")
    /\ UNCHANGED <<products, cart, wishlist, orders, appliedCoupon,
                   couponInput, couponError, isCartOpen, showCheckoutSuccess,
                   revenue, totalOrders, view, isAdminAuthenticated,
                   successTimers>>

\* mutant: the applied coupon is a live view of the registry entry
deleteCoupon_DropsApplied(code) ==
    /\ coupons' = Filter(coupons, LAMBDA c : c.code # code)
    /\ appliedCoupon' = IF appliedCoupon # null /\ appliedCoupon.code = code
                        THEN null ELSE appliedCoupon
    /\ Ran("deleteCoupon")
    /\ UNCHANGED <<products, cart, wishlist, orders,
                   couponInput, couponError, isCartOpen, showCheckoutSuccess,
                   revenue, totalOrders, view, isAdminAuthenticated,
                   successTimers>>

deleteCoupon(code) ==
    /\ coupons' = Filter(coupons, LAMBDA c : c.code # code)
    /\ Ran("deleteCoupon")
    /\ UNCHANGED <<products, cart, wishlist, orders, appliedCoupon,
                   couponInput, couponError, isCartOpen, showCheckoutSuccess,
                   revenue, totalOrders, view, isAdminAuthenticated,
                   successTimers>>

-----------------------------------------------------------------------------
(* Catalog and wishlist *)

\* a reading of Date.now(): later than every id of INITIAL_PRODUCTS
Now == 1000

RECURSIVE MaxIdOf(_)
MaxIdOf(catalog) ==
    IF catalog = <<>> THEN 0
    ELSE Max(Head(catalog).id, MaxIdOf(Tail(catalog)))

\* newProduct = { name, price, ... } is the content of the form at submit;
\* the clock has moved on since the last product was added
handleAddProduct(name, price) ==
    /\ Ran("handleAddProduct")
    /\ IF name = <<>> \/ price = <<>>
       THEN UNCHANGED products
       ELSE products' = <<[id |-> Max(Now, MaxIdOf(products) + 1),
                           price |-> Number(price)]>> \o products
    /\ UNCHANGED <<cart, wishlist, orders, coupons, appliedCoupon,
                   couponInput, couponError, isCartOpen, showCheckoutSuccess,
                   revenue, totalOrders, view, isAdminAuthenticated,
                   successTimers>>

\* mutant: the lines of the deleted product leave the cart with it
deleteProduct_PurgesCart(id) ==
    /\ products' = Filter(products, LAMBDA p : p.id # id)
    /\ cart' = Filter(cart, LAMBDA item : item.id # id)
    /\ Ran("deleteProduct")
    /\ UNCHANGED <<wishlist, orders, coupons, appliedCoupon,
                   couponInput, couponError, isCartOpen, showCheckoutSuccess,
                   revenue, totalOrders, view, isAdminAuthenticated,
                   successTimers>>

deleteProduct(id) ==
    /\ products' = Filter(products, LAMBDA p : p.id # id)
    /\ Ran("deleteProduct")
    /\ UNCHANGED <<cart, wishlist, orders, coupons, appliedCoupon,
                   couponInput, couponError, isCartOpen, showCheckoutSuccess,
                   revenue, totalOrders, view, isAdminAuthenticated,
                   successTimers>>

\* mutant: the id is appended without looking for it
toggleWishlistResult_AlwaysAppends(prev, productId) ==
    Append(prev, productId)

\* the updater passed to setWishlist
toggleWishlistResult(prev, productId) ==
    IF \E i \in 1..Len(prev) : prev[i] = productId
    THEN Filter(prev, LAMBDA id : id # productId)
    ELSE Append(prev, productId)

toggleWishlist(productId) ==
    /\ wishlist' = toggleWishlistResult(wishlist, productId)
    /\ Ran("toggleWishlist")
    /\ UNCHANGED <<products, cart, orders, coupons, appliedCoupon,
                   couponInput, couponError, isCartOpen, showCheckoutSuccess,
                   revenue, totalOrders, view, isAdminAuthenticated,
                   successTimers>>

-----------------------------------------------------------------------------
(* Inputs of the exploration *)

ProductIds == 1..MaxProductId
OrderIds == 1..MaxOrderId
Deltas == {-100, -1, 1}
CodeInputs == {<<>>, welcome10, Save}
CouponCodes == {toUpperCase(c) : c \in CodeInputs \ {<<>>}}
\* "", "20", "150"
DiscountInputs == {<<>>, <<50, 48>>, <<49, 53, 48>>}

\* "", "X"
NameInputs == {<<>>, <<88>>}
\* "", "7"
PriceInputs == {<<>>, <<55>>}

\* the handlers that read or write the cart, the wishlist, the coupons, the
\* orders or a product of ProductIds, called in any order with any argument
Next ==
    \/ \E i \in 1..Len(products) :
          products[i].id \in ProductIds /\ addToCart(products[i])
    \/ \E productId \in ProductIds : removeFromCart(productId)
    \/ \E productId \in ProductIds, delta \in Deltas :
          updateQuantity(productId, delta)
    \/ checkout
    \/ checkoutTimeout
    \/ \E orderId \in OrderIds, newStatus \in Statuses :
          updateOrderStatus(orderId, newStatus)
    \/ \E text \in CodeInputs \ {<<>>} : setCouponInput(text)
    \/ handleApplyCoupon
    \/ removeAppliedCoupon
    \/ \E code \in CodeInputs, discount \in DiscountInputs :
          handleAddCoupon(code, discount)
    \/ \E code \in CouponCodes : toggleCouponStatus(code)
    \/ \E code \in CouponCodes : deleteCoupon(code)
    \/ \E id \in ProductIds : deleteProduct(id)
    \/ \E productId \in ProductIds : toggleWishlist(productId)

Spec == Init /\ [][Next]_vars

-----------------------------------------------------------------------------
(* The user interface: each control with the condition under which it is   *)
(* rendered, calling its handler                                           *)

Views == {"shop", "admin", "wishlist", "my-orders"}

\* the header buttons; the open cart drawer's backdrop covers the page
setView(v) ==
    /\ ~isCartOpen
    /\ view' = v
    /\ Ran("setView")
    /\ UNCHANGED <<products, cart, wishlist, orders, coupons, appliedCoupon,
                   couponInput, couponError, isCartOpen, showCheckoutSuccess,
                   revenue, totalOrders, isAdminAuthenticated, successTimers>>

\* the header cart button and the drawer's backdrop and close button
setIsCartOpen(open) ==
    /\ IF open THEN view = "shop" /\ ~isCartOpen ELSE isCartOpen
    /\ isCartOpen' = open
    /\ Ran("setIsCartOpen")
    /\ UNCHANGED <<products, cart, wishlist, orders, coupons, appliedCoupon,
                   couponInput, couponError, showCheckoutSuccess, revenue,
                   totalOrders, view, isAdminAuthenticated, successTimers>>

InWishlist(id) == \E i \in 1..Len(wishlist) : wishlist[i] = id

\* a product card of the shop view or of the wishlist view
CardShown(product) ==
    /\ ~isCartOpen
    /\ \/ view = "shop"
       \/ view = "wishlist" /\ InWishlist(product.id)

CartDrawerShown == isCartOpen /\ Len(cart) > 0

\* mutant: the checkout button is never disabled
CheckoutButtonEnabled_Always == CartDrawerShown

\* the checkout button of the drawer: disabled={showCheckoutSuccess}
CheckoutButtonEnabled == CartDrawerShown /\ ~showCheckoutSuccess

MyOrdersShown == view = "my-orders" /\ ~isCartOpen

\* mutant: the admin panel is rendered without looking at the flag
AdminShown_NoGate == view = "admin" /\ ~isCartOpen

AdminShown == view = "admin" /\ isAdminAuthenticated /\ ~isCartOpen

\* mutant: the Return button is rendered for every order
returnOrder_NoGuard(i) ==
    /\ MyOrdersShown
    /\ updateOrderStatus(orders[i].id, "Returned")

\* mutant: the Return button is rendered unless the order is Returned
returnOrder_Unreturned(i) ==
    /\ MyOrdersShown
    /\ orders[i].status # "Returned"
    /\ updateOrderStatus(orders[i].id, "Returned")

\* the Return button of an order card
returnOrder(i) ==
    /\ MyOrdersShown
    /\ orders[i].status = "Delivered"
    /\ updateOrderStatus(orders[i].id, "Returned")

\* reads the order, changes no state
downloadInvoice(i) ==
    /\ MyOrdersShown
    /\ Ran("downloadInvoice")
    /\ UNCHANGED <<products, cart, wishlist, orders, coupons, appliedCoupon,
                   couponInput, couponError, isCartOpen, showCheckoutSuccess,
                   revenue, totalOrders, view, isAdminAuthenticated,
                   successTimers>>

\* the status <select> of an order row: onChange fires on a new value
selectOrderStatus(i, newStatus) ==
    /\ AdminShown
    /\ newStatus # orders[i].status
    /\ updateOrderStatus(orders[i].id, newStatus)

ADMIN_ID == "Sanket123"
ADMIN_PASSWORD == "Sanket@959595"

handleAdminLogin(id, password) ==
    /\ view = "admin" /\ ~isAdminAuthenticated /\ ~isCartOpen
    /\ isAdminAuthenticated' =
          IF id = ADMIN_ID /\ password = ADMIN_PASSWORD THEN TRUE
          ELSE isAdminAuthenticated
    /\ Ran("handleAdminLogin")
    /\ UNCHANGED <<products, cart, wishlist, orders, coupons, appliedCoupon,
                   couponInput, couponError, isCartOpen, showCheckoutSuccess,
                   revenue, totalOrders, view, successTimers>>

handleAdminLogout ==
    /\ AdminShown
    /\ isAdminAuthenticated' = FALSE
    /\ Ran("handleAdminLogout")
    /\ UNCHANGED <<products, cart, wishlist, orders, coupons, appliedCoupon,
                   couponInput, couponError, isCartOpen, showCheckoutSuccess,
                   revenue, totalOrders, view, successTimers>>

InitUI == InitApp /\ stepsLeft = MaxUISteps

NextUI ==
    \/ \E v \in Views : setView(v)
    \/ \E open \in BOOLEAN : setIsCartOpen(open)
    \/ \E i \in 1..Len(products) :
          /\ products[i].id \in ProductIds
          /\ CardShown(products[i])
          /\ addToCart(products[i])
    \/ \E i \in 1..Len(products) :
          /\ products[i].id \in ProductIds
          /\ CardShown(products[i])
          /\ toggleWishlist(products[i].id)
    \/ \E i \in 1..Len(cart) :
          CartDrawerShown /\ removeFromCart(cart[i].id)
    \/ \E i \in 1..Len(cart), delta \in {-1, 1} :
          CartDrawerShown /\ updateQuantity(cart[i].id, delta)
    \/ \E text \in CodeInputs :
          CartDrawerShown /\ appliedCoupon = null /\ setCouponInput(text)
    \/ CartDrawerShown /\ appliedCoupon = null /\ handleApplyCoupon
    \/ CartDrawerShown /\ appliedCoupon # null /\ removeAppliedCoupon
    \/ CheckoutButtonEnabled /\ checkout
    \/ checkoutTimeout
    \/ \E i \in 1..Len(orders) : returnOrder(i)
    \/ \E i \in 1..Len(orders) : downloadInvoice(i)
    \/ \E id \in {ADMIN_ID, "guest"}, password \in {ADMIN_PASSWORD, ""} :
          handleAdminLogin(id, password)
    \/ handleAdminLogout
    \/ \E i \in 1..Len(orders), newStatus \in Statuses :
          selectOrderStatus(i, newStatus)
    \/ \E code \in CodeInputs, discount \in DiscountInputs :
          AdminShown /\ handleAddCoupon(code, discount)
    \/ \E i \in 1..Len(coupons) :
          AdminShown /\ toggleCouponStatus(coupons[i].code)
    \/ \E i \in 1..Len(coupons) :
          AdminShown /\ deleteCoupon(coupons[i].code)
    \/ \E name \in NameInputs, price \in PriceInputs :
          AdminShown /\ handleAddProduct(name, price)
    \/ \E i \in 1..Len(products) :
          /\ products[i].id \in ProductIds
          /\ AdminShown
          /\ deleteProduct(products[i].id)

SpecUI == InitUI /\ [][NextUI]_vars

-----------------------------------------------------------------------------
(* Sessions that start at the cart drawer: the cart has been filled by
   addToCart with the first two products, and the registry's coupon may have
   been applied *)

\* the cart after q1 additions of product 1 and q2 additions of product 2
CartOf(q1, q2) ==
    (IF q1 > 0
     THEN <<[id |-> INITIAL_PRODUCTS[1].id,
             price |-> INITIAL_PRODUCTS[1].price, quantity |-> q1]>>
     ELSE <<>>)
    \o (IF q2 > 0
        THEN <<[id |-> INITIAL_PRODUCTS[2].id,
                price |-> INITIAL_PRODUCTS[2].price, quantity |-> q2]>>
        ELSE <<>>)

InitCart ==
    /\ products = INITIAL_PRODUCTS
    /\ \E q1, q2 \in 0..MaxQuantity : cart = CartOf(q1, q2)
    /\ wishlist = <<>>
    /\ orders = <<>>
    /\ coupons = << [code |-> WELCOME10, discount |-> 10, isActive |-> TRUE] >>
    /\ appliedCoupon \in {null, [code |-> WELCOME10, discount |-> 10,
                                 isActive |-> TRUE]}
    /\ couponInput = <<>>
    /\ couponError = ""
    /\ isCartOpen = FALSE
    /\ showCheckoutSuccess = FALSE
    /\ revenue = 0
    /\ totalOrders = 0
    /\ view = "shop"
    /\ isAdminAuthenticated = FALSE
    /\ successTimers = 0
    /\ lastAction = "init"
    /\ stepsLeft = MaxCartSteps

SpecCart == InitCart /\ [][Next]_vars
-----------------------------------------------------------------------------
(* Properties *)

\* the position after a step of the order that is at position i before it:
\* the ledger grows at its head, so an order is known by its distance from
\* the ledger's end
After(i) == Len(orders') - Len(orders) + i

\* C1: in every reachable state every cart line has quantity >= 1 and no
\* two cart lines have the same product id
C1_CartWellFormed ==
    /\ \A i \in 1..Len(cart) : cart[i].quantity >= 1
    /\ \A i, j \in 1..Len(cart) : i # j => cart[i].id # cart[j].id

\* two lines, one at quantity 2 made by adding a product again, and a
\* decrement of the line at quantity 1 has just run
C1_Witness ==
    /\ lastAction = "updateQuantity"
    /\ Len(cart) = 2
    /\ cart[1].quantity = 1
    /\ cart[2].quantity = 2

\* C2: checkout on a non-empty cart puts exactly one new order at the head
\* of the ledger, Pending, with the cart's lines and with total = subtotal
\* minus discount of that instant, and empties the cart
C2_CheckoutCreatesOrder ==
    [][(lastAction' = "checkout" /\ cart # <<>>) =>
          /\ Len(orders') = Len(orders) + 1
          /\ Tail(orders') = orders
          /\ Head(orders').status = "Pending"
          /\ Head(orders').items = cart
          /\ Head(orders').total = subtotal - discountAmount
          /\ cart' = <<>>]_vars

\* a checkout has just placed an order whose total carries a discount
C2_Witness ==
    /\ lastAction = "checkout"
    /\ Len(orders) = 1
    /\ cart = <<>>
    /\ Head(orders).items # <<>>
    /\ Head(orders).total # subtotalOf(Head(orders).items)

\* C3: an order in the ledger keeps its total and its item snapshot (and
\* its id and date) in every later step; only its status can change
C3_OrderFrozen ==
    [][\A i \in 1..Len(orders) :
          /\ After(i) >= 1
          /\ orders'[After(i)].total = orders[i].total
          /\ orders'[After(i)].items = orders[i].items
          /\ orders'[After(i)].id = orders[i].id
          /\ orders'[After(i)].date = orders[i].date]_vars

\* an order was placed without a coupon, and a coupon has been applied since
C3_Witness ==
    /\ lastAction = "handleApplyCoupon"
    /\ appliedCoupon # null
    /\ Len(orders) >= 1
    /\ Head(orders).total = subtotalOf(Head(orders).items)

\* C4: checkout on an empty cart changes neither the ledger, revenue,
\* totalOrders, the cart, the applied coupon nor the success flag
C4_EmptyCheckoutNoOp ==
    [][(lastAction' = "checkout" /\ cart = <<>>) =>
          UNCHANGED <<orders, revenue, totalOrders, cart, appliedCoupon,
                      showCheckoutSuccess, successTimers>>]_vars

\* the last handler was checkout and it placed no order (no timer of it is
\* pending), after an earlier order and its timer
C4_Witness ==
    /\ lastAction = "checkout"
    /\ successTimers = 0
    /\ ~showCheckoutSuccess
    /\ Len(orders) = 1
    /\ cart = <<>>

\* an order that is not Returned before the step and is Returned after it
BecomesReturned(i) ==
    /\ orders[i].status # "Returned"
    /\ orders'[After(i)].status = "Returned"

\* C5 as stated: an order becomes Returned only from Delivered and only by
\* the customer Return action (the my-orders view), never by the
\* administrative selector
C5_ReturnedOnlyByCustomerReturn ==
    [][\A i \in 1..Len(orders) :
          BecomesReturned(i) =>
              /\ lastAction' = "updateOrderStatus"
              /\ view = "my-orders"
              /\ orders[i].status = "Delivered"]_vars

\* C5 amended: an order becomes Returned only in an updateOrderStatus step
\* that is either the administrative status selector (from any status) or
\* the customer Return action on a Delivered order carrying this order's id
C5_ReturnedOnlyByStatusUpdate ==
    [][\A i \in 1..Len(orders) :
          BecomesReturned(i) =>
              /\ lastAction' = "updateOrderStatus"
              /\ \/ view = "admin" /\ isAdminAuthenticated
                 \/ /\ view = "my-orders"
                    /\ \E k \in 1..Len(orders) :
                          /\ orders[k].status = "Delivered"
                          /\ orders[k].id = orders[i].id]_vars

\* the administrative selector has just moved an order into Returned
C5_Witness ==
    /\ lastAction = "updateOrderStatus"
    /\ view = "admin"
    /\ \E i \in 1..Len(orders) : orders[i].status = "Returned"

\* C6: on the customer surface (the my-orders view) the only change of the
\* ledger is the Return of an order whose status is Delivered: that order's
\* id is set to Returned, nothing else changes
C6_CustomerReturnGated ==
    [][(view = "my-orders" /\ orders' # orders) =>
          \E k \in 1..Len(orders) :
              /\ orders[k].status = "Delivered"
              /\ Len(orders') = Len(orders)
              /\ \A j \in 1..Len(orders) :
                    orders'[j] =
                        IF orders[j].id = orders[k].id
                        THEN [orders[j] EXCEPT !.status = "Returned"]
                        ELSE orders[j]]_vars

\* the customer has just returned the one order of the ledger
C6_Witness ==
    /\ lastAction = "updateOrderStatus"
    /\ view = "my-orders"
    /\ Len(orders) = 1
    /\ orders[1].status = "Returned"

\* C7 as stated: the discount never exceeds the subtotal, and cartTotal,
\* every order total and the revenue are never negative
C7_NeverNegative ==
    /\ discountAmount <= subtotal
    /\ cartTotal >= 0
    /\ revenue >= 0
    /\ \A i \in 1..Len(orders) : orders[i].total >= 0

\* C8 as stated: no two orders of the ledger have the same id
C8_UniqueOrderIds ==
    \A i, j \in 1..Len(orders) : i # j => orders[i].id # orders[j].id

\* C9: the ledger never shrinks; it grows only by one and only in a
\* checkout on a non-empty cart; the orders keep their relative order;
\* every status is one of the four and changes only in updateOrderStatus
C9_LedgerAppendOnly ==
    [][/\ Len(orders') >= Len(orders)
       /\ Len(orders') # Len(orders) =>
             /\ Len(orders') = Len(orders) + 1
             /\ lastAction' = "checkout"
             /\ cart # <<>>
       /\ \A i \in 1..Len(orders) :
             /\ [orders'[After(i)] EXCEPT !.status = "Pending"] =
                   [orders[i] EXCEPT !.status = "Pending"]
             /\ orders'[After(i)].status # orders[i].status =>
                   lastAction' = "updateOrderStatus"
       /\ \A i \in 1..Len(orders') : orders'[i].status \in Statuses]_vars

\* two orders in the ledger, and a status update has just set them apart
C9_Witness ==
    /\ lastAction = "updateOrderStatus"
    /\ Len(orders) = 2
    /\ orders[1].status # orders[2].status

\* the sum of price * quantity over the first n cart lines
RECURSIVE LineSum(_)
LineSum(n) ==
    IF n = 0 THEN 0
    ELSE LineSum(n - 1) + cart[n].price * cart[n].quantity

\* C10: subtotal is the sum of price * quantity over the cart lines,
\* discountAmount is subtotal * discount / 100 with a coupon applied and 0
\* without, and cartTotal = subtotal - discountAmount
C10_PricingFunction ==
    /\ subtotal = Unit * LineSum(Len(cart))
    /\ appliedCoupon = null => discountAmount = 0
    /\ appliedCoupon # null =>
          100 * discountAmount = subtotal * appliedCoupon.discount
    /\ cartTotal = subtotal - discountAmount

\* two lines, one of them at quantity 2, priced under an applied coupon
C10_Witness ==
    /\ appliedCoupon # null
    /\ Len(cart) = 2
    /\ \E i \in 1..Len(cart) : cart[i].quantity = 2
    /\ discountAmount > 0

\* the positions of the cart lines of a product
LinesOf(c, productId) == {i \in 1..Len(c) : c[i].id = productId}

\* C11: addToCart(product) on a cart holding a line of product.id adds 1
\* to that line's quantity and keeps the number and order of the lines;
\* otherwise it appends a line of quantity 1 after the existing lines; the
\* other lines are unchanged
C11_AddToCart ==
    [][lastAction' = "addToCart" =>
          \A k \in 1..Len(products) :
              addToCart(products[k]) =>
                 IF LinesOf(cart, products[k].id) # {}
                 THEN /\ Len(cart') = Len(cart)
                      /\ \A i \in 1..Len(cart) :
                            /\ cart'[i].id = cart[i].id
                            /\ cart'[i].price = cart[i].price
                            /\ cart'[i].quantity =
                                  IF cart[i].id = products[k].id
                                  THEN cart[i].quantity + 1
                                  ELSE cart[i].quantity
                 ELSE /\ Len(cart') = Len(cart) + 1
                      /\ \A i \in 1..Len(cart) : cart'[i] = cart[i]
                      /\ cart'[Len(cart')].id = products[k].id
                      /\ cart'[Len(cart')].price = products[k].price
                      /\ cart'[Len(cart')].quantity = 1]_vars

\* the same product was added twice to the empty cart: one line, quantity 2
C11_Witness ==
    /\ lastAction = "addToCart"
    /\ stepsLeft = MaxSteps - 2
    /\ Len(cart) = 1
    /\ cart[1].quantity = 2

\* C12: updateQuantity(productId, delta) sets the matching line's quantity
\* to max(1, quantity + delta), keeps every line in place, and changes
\* nothing when productId is not in the cart
C12_UpdateQuantity ==
    [][lastAction' = "updateQuantity" =>
          \A productId \in ProductIds, delta \in Deltas :
              updateQuantity(productId, delta) =>
                 /\ Len(cart') = Len(cart)
                 /\ \A i \in 1..Len(cart) :
                       /\ cart'[i].id = cart[i].id
                       /\ cart'[i].price = cart[i].price
                       /\ cart'[i].quantity =
                             IF cart[i].id # productId THEN cart[i].quantity
                             ELSE IF cart[i].quantity + delta >= 1
                                  THEN cart[i].quantity + delta
                                  ELSE 1
                 /\ LinesOf(cart, productId) = {} => cart' = cart
                 /\ \A i \in LinesOf(cart, productId) :
                       cart[i].quantity = 1 /\ delta < 0 => cart' = cart]_vars

\* updateQuantity has just run on a cart of two lines and left one line at
\* quantity 2 beside a line at quantity 1
C12_Witness ==
    /\ lastAction = "updateQuantity"
    /\ Len(cart) = 2
    /\ cart[1].quantity = 2
    /\ cart[2].quantity = 1

\* the lines of c whose product is not productId, in their order
RECURSIVE Without(_, _)
Without(c, productId) ==
    IF c = <<>> THEN <<>>
    ELSE IF c[Len(c)].id = productId
         THEN Without(SubSeq(c, 1, Len(c) - 1), productId)
         ELSE Append(Without(SubSeq(c, 1, Len(c) - 1), productId), c[Len(c)])

\* C13: removeFromCart(productId) removes exactly the line of that product
\* and keeps the other lines with their quantity and order; without such a
\* line the cart is unchanged; removing twice is the same as removing once
C13_RemoveFromCart ==
    [][lastAction' = "removeFromCart" =>
          \A productId \in ProductIds :
              removeFromCart(productId) =>
                 /\ cart' = Without(cart, productId)
                 /\ Len(cart') =
                       Len(cart) - Cardinality(LinesOf(cart, productId))
                 /\ Cardinality(LinesOf(cart, productId)) <= 1
                 /\ LinesOf(cart, productId) = {} => cart' = cart
                 /\ removeFromCartResult(cart', productId) = cart']_vars

\* the first of two lines has just been removed: the second line is left
C13_Witness ==
    /\ lastAction = "removeFromCart"
    /\ Len(cart) = 1
    /\ cart[1].id = 2
    /\ stepsLeft = MaxSteps - 3

\* two codes that differ at most in the case of their letters
SameIgnoringCase(a, b) ==
    /\ Len(a) = Len(b)
    /\ \A i \in 1..Len(a) :
          \/ a[i] = b[i]
          \/ /\ a[i] \in (65..90) \cup (97..122)
             /\ b[i] \in (65..90) \cup (97..122)
             /\ (a[i] - b[i] = 32 \/ b[i] - a[i] = 32)

\* the positions of the active coupons of the registry whose code is the
\* typed code up to letter case
ActiveMatches ==
    {i \in 1..Len(coupons) :
        SameIgnoringCase(coupons[i].code, couponInput) /\ coupons[i].isActive}

\* C14: applying the typed code succeeds exactly when the registry holds an
\* active coupon of that code up to letter case, and then the applied coupon
\* carries the code and the discount of such a coupon
C14_ApplySucceedsIffActiveMatch ==
    [][lastAction' = "handleApplyCoupon" =>
          IF ActiveMatches # {}
          THEN /\ couponError' = ""
               /\ appliedCoupon' # null
               /\ \E i \in ActiveMatches :
                     /\ appliedCoupon'.code = coupons[i].code
                     /\ appliedCoupon'.discount = coupons[i].discount
          ELSE /\ couponError' = InvalidCoupon
               /\ appliedCoupon' = appliedCoupon]_vars

\* the code typed in lower case has just been applied: the applied coupon is
\* the registry's upper-case WELCOME10
C14_Witness ==
    /\ lastAction = "handleApplyCoupon"
    /\ couponError = ""
    /\ appliedCoupon # null
    /\ appliedCoupon.code = WELCOME10
    /\ appliedCoupon.discount = 10

\* C15: applying a code that matches no coupon, or only inactive coupons,
\* reports InvalidCoupon and leaves the cart, the applied coupon, the coupon
\* registry and the order ledger unchanged
C15_RejectedApplyChangesNothing ==
    [][lastAction' = "handleApplyCoupon" /\ ActiveMatches = {} =>
          /\ couponError' = InvalidCoupon
          /\ UNCHANGED <<cart, appliedCoupon, coupons, orders>>]_vars

\* the code of an inactive coupon has just been rejected while another
\* application of that coupon is still in force
C15_Witness ==
    /\ lastAction = "handleApplyCoupon"
    /\ couponError = InvalidCoupon
    /\ appliedCoupon # null
    /\ \E i \in 1..Len(coupons) :
          /\ SameIgnoringCase(coupons[i].code, couponInput)
          /\ ~coupons[i].isActive

\* C16: once a coupon is applied, deleting it from the registry or toggling
\* it changes neither the applied coupon nor the discount and the total of
\* the open cart
C16_AppliedCouponIsSnapshot ==
    [][appliedCoupon # null
         /\ lastAction' \in {"toggleCouponStatus", "deleteCoupon"} =>
          /\ appliedCoupon' = appliedCoupon
          /\ discountAmount' = discountAmount
          /\ cartTotal' = cartTotal]_vars

\* the applied coupon has just been deleted from the registry and still
\* discounts the open cart
C16_Witness ==
    /\ lastAction = "deleteCoupon"
    /\ appliedCoupon # null
    /\ \A i \in 1..Len(coupons) : coupons[i].code # appliedCoupon.code
    /\ cart # <<>>
    /\ discountAmount > 0
    /\ cartTotal = subtotal - discountAmount

\* C17: the applied coupon changes only in a remove-coupon step, which sets
\* it to none, and in a successful apply, which sets or replaces it; every
\* other step, checkout included, leaves it as it is
C17_AppliedCouponChangesOnlyByApplyOrRemove ==
    [][/\ appliedCoupon' # appliedCoupon =>
             \/ lastAction' = "removeAppliedCoupon" /\ appliedCoupon' = null
             \/ /\ lastAction' = "handleApplyCoupon"
                /\ appliedCoupon' # null
                /\ couponError' = ""
       /\ lastAction' = "checkout" => appliedCoupon' = appliedCoupon]_vars

\* a coupon applied before a checkout discounts the cart filled after it
C17_Witness ==
    /\ lastAction = "addToCart"
    /\ Len(orders) = 1
    /\ orders[1].total < subtotalOf(orders[1].items)
    /\ appliedCoupon # null
    /\ cart # <<>>
    /\ discountAmount > 0

\* C18: no two coupons of the registry have the same code up to letter case
C18_UniqueCouponCodes ==
    \A i, j \in 1..Len(coupons) :
        i # j => ~SameIgnoringCase(coupons[i].code, coupons[j].code)

\* a code without lower-case letters
IsUpperCase(code) == \A i \in 1..Len(code) : code[i] \notin 97..122

\* the number written by the digits of a discount field
NumberTyped(text) ==
    CASE text = <<50, 48>> -> 20
      [] text = <<49, 53, 48>> -> 150

\* C19: registering a non-empty code with a non-empty discount appends one
\* coupon with the code in upper case, the given number as discount and the
\* active flag set; every code of the registry is in upper case in every
\* state
C19_RegisterAppendsUpperCased ==
    [][/\ lastAction = "init" =>
             \A i \in 1..Len(coupons) : IsUpperCase(coupons[i].code)
       /\ coupons' # coupons =>
             \A i \in 1..Len(coupons') : IsUpperCase(coupons'[i].code)
       /\ lastAction' = "handleAddCoupon" =>
             \A code \in CodeInputs \ {<<>>},
                discount \in DiscountInputs \ {<<>>} :
                 handleAddCoupon(code, discount) =>
                    /\ Len(coupons') = Len(coupons) + 1
                    /\ SubSeq(coupons', 1, Len(coupons)) = coupons
                    /\ IsUpperCase(coupons'[Len(coupons')].code)
                    /\ SameIgnoringCase(coupons'[Len(coupons')].code, code)
                    /\ coupons'[Len(coupons')].discount = NumberTyped(discount)
                    /\ coupons'[Len(coupons')].isActive]_vars

\* the code typed as "Save" has just been registered with 150: the registry
\* ends with an active SAVE coupon of 150
C19_Witness ==
    /\ lastAction = "handleAddCoupon"
    /\ Len(coupons) = 2
    /\ coupons[2] = [code |-> <<83, 65, 86, 69>>, discount |-> 150,
                     isActive |-> TRUE]

\* C20: the status update moves the order of the given id from any status
\* to any of the four statuses and changes nothing else: every other order,
\* and the id, date, items and total of that order, are unchanged
C20_StatusUpdateFrame ==
    [][lastAction' = "updateOrderStatus" =>
          \A orderId \in OrderIds, newStatus \in Statuses :
              updateOrderStatus(orderId, newStatus) =>
                 /\ Len(orders') = Len(orders)
                 /\ \A i \in 1..Len(orders) :
                       /\ orders'[i].id = orders[i].id
                       /\ orders'[i].date = orders[i].date
                       /\ orders'[i].items = orders[i].items
                       /\ orders'[i].total = orders[i].total
                       /\ orders'[i].status =
                             IF orders[i].id = orderId THEN newStatus
                             ELSE orders[i].status
                       /\ orders[i].id # orderId => orders'[i] = orders[i]]_vars

\* a status update has just moved one of two orders with different ids and
\* left the other one Pending
C20_Witness ==
    /\ lastAction = "updateOrderStatus"
    /\ Len(orders) = 2
    /\ orders[1].id # orders[2].id
    /\ orders[1].status = "Pending"
    /\ orders[2].status = "Returned"

\* the handlers wired only to controls of the admin panel
AdminOperations ==
    {"handleAddProduct", "deleteProduct", "handleAddCoupon",
     "toggleCouponStatus", "deleteCoupon"}

\* C21: a product or coupon operation, or a status override through the
\* selector, happens only while the is-admin flag is true; the flag becomes
\* true only by a login with the correct credentials and false only by
\* logout
C21_AdminGate ==
    [][/\ lastAction' \in AdminOperations => isAdminAuthenticated
       /\ lastAction' = "updateOrderStatus" /\ ~isAdminAuthenticated =>
             /\ view = "my-orders"
             /\ \A i \in 1..Len(orders) :
                   orders'[i] # orders[i] => orders'[i].status = "Returned"
       /\ isAdminAuthenticated' /\ ~isAdminAuthenticated =>
             handleAdminLogin(ADMIN_ID, ADMIN_PASSWORD)
       /\ lastAction' = "handleAdminLogin" =>
             \A id \in {ADMIN_ID, "guest"}, password \in {ADMIN_PASSWORD, ""} :
                 /\ id # ADMIN_ID \/ password # ADMIN_PASSWORD
                 /\ handleAdminLogin(id, password)
                 => ~isAdminAuthenticated'
       /\ ~isAdminAuthenticated' /\ isAdminAuthenticated =>
             lastAction' = "handleAdminLogout"]_vars

\* the administrator has logged in, deleted the only coupon and logged out
C21_Witness ==
    /\ lastAction = "handleAdminLogout"
    /\ ~isAdminAuthenticated
    /\ coupons = <<>>

\* C22: the order placed by checkout for the cart [{12999, 1}, {4500, 2}]
\* with the 10% coupon applied has a subtotal of 21999 and a total of 19799
C22_ScenarioTotal ==
    /\ lastAction = "checkout"
    /\ orders # <<>>
    /\ Head(orders).items = CartOf(1, 2)
    /\ appliedCoupon # null
    /\ appliedCoupon.discount = 10
    => /\ subtotalOf(Head(orders).items) = 21999 * Unit
       /\ Head(orders).total = 19799 * Unit

\* the set of the ids of a wishlist
IdsOf(w) == {w[i] : i \in 1..Len(w)}

\* C23: toggleWishlist(id) adds id when it is absent and removes it when it
\* is present; toggling the same id once more gives back the set of ids the
\* wishlist started with
C23_ToggleWishlist ==
    [][lastAction' = "toggleWishlist" =>
          \A productId \in ProductIds :
              toggleWishlist(productId) =>
                 /\ IdsOf(wishlist') =
                       IF productId \in IdsOf(wishlist)
                       THEN IdsOf(wishlist) \ {productId}
                       ELSE IdsOf(wishlist) \cup {productId}
                 /\ Len(wishlist') = Cardinality(IdsOf(wishlist'))
                 /\ IdsOf(toggleWishlistResult(wishlist', productId)) =
                       IdsOf(wishlist)]_vars

\* product 1 was toggled out of and back into a wishlist that also holds
\* product 2: the same set, with product 1 now last
C23_Witness ==
    /\ lastAction = "toggleWishlist"
    /\ wishlist = <<2, 1>>
    /\ stepsLeft = MaxSteps - 4

\* C24: toggleWishlist leaves the cart, the applied coupon, the coupon
\* registry, the order ledger and the pricing values unchanged, and no other
\* action changes the wishlist
C24_WishlistIndependent ==
    [][/\ lastAction' = "toggleWishlist" =>
             /\ UNCHANGED <<cart, appliedCoupon, coupons, orders, revenue>>
             /\ subtotal' = subtotal
             /\ discountAmount' = discountAmount
             /\ cartTotal' = cartTotal
       /\ wishlist' # wishlist => lastAction' = "toggleWishlist"]_vars

\* a product was put on the wishlist beside a discounted cart, and a cart
\* action has run since
C24_Witness ==
    /\ lastAction = "updateQuantity"
    /\ wishlist # <<>>
    /\ cart # <<>>
    /\ \E i \in 1..Len(cart) : cart[i].id \in IdsOf(wishlist)
    /\ appliedCoupon # null
    /\ discountAmount > 0

\* the registry holds a coupon of this code / an active coupon of this code
Present(registry, code) ==
    \E i \in 1..Len(registry) : registry[i].code = code

Applicable(registry, code) ==
    \E i \in 1..Len(registry) :
        registry[i].code = code /\ registry[i].isActive

\* C25: a code is applied only while a coupon of that code is present and
\* active; a code whose coupon was toggled inactive fails until that coupon
\* is toggled active again, a deleted code fails until it is registered
\* again, and deleting a code that is not in the registry changes nothing
C25_AppliedOnlyWhilePresentAndActive ==
    [][/\ lastAction' = "handleApplyCoupon" /\ couponError' = "" =>
             Applicable(coupons, toUpperCase(couponInput))
       /\ \A code \in CouponCodes :
             ~Applicable(coupons, code) /\ Applicable(coupons', code) =>
                IF Present(coupons, code)
                THEN lastAction' = "toggleCouponStatus"
                ELSE lastAction' = "handleAddCoupon"
       /\ \A code \in CouponCodes :
             deleteCoupon(code) /\ ~Present(coupons, code) =>
                coupons' = coupons]_vars

\* C26: a failed apply sets a non-empty coupon error and keeps the applied
\* coupon; an apply of a valid active code while the error is shown clears
\* the error and the input and sets the applied coupon
C26_InvalidCouponRecoverable ==
    [][lastAction' = "handleApplyCoupon" =>
          /\ ActiveMatches = {} =>
                /\ couponError' # ""
                /\ appliedCoupon' = appliedCoupon
          /\ ActiveMatches # {} /\ couponError # "" =>
                /\ couponError' = ""
                /\ couponInput' = <<>>
                /\ appliedCoupon' # null
                /\ SameIgnoringCase(appliedCoupon'.code, couponInput)]_vars

\* the third handler run is an accepted apply, as after a rejected apply of
\* the empty field and the typing of the code
C26_Witness ==
    /\ lastAction = "handleApplyCoupon"
    /\ stepsLeft = MaxSteps - 3
    /\ couponError = ""
    /\ couponInput = <<>>
    /\ appliedCoupon # null
    /\ Len(coupons) = 1
    /\ coupons[1].isActive
    /\ cart = <<>> /\ wishlist = <<>> /\ products = INITIAL_PRODUCTS

\* the sum of the totals of the orders of a ledger
RECURSIVE SumTotals(_)
SumTotals(ledger) ==
    IF ledger = <<>> THEN 0
    ELSE Head(ledger).total + SumTotals(Tail(ledger))

\* C27: the revenue counter is the sum of the totals of the orders of the
\* ledger in every state, and a status update, a move to Returned included,
\* leaves it unchanged
C27_RevenueIsSumOfTotals ==
    [][/\ lastAction = "init" => revenue = SumTotals(orders)
       /\ revenue' = SumTotals(orders')
       /\ lastAction' = "updateOrderStatus" => revenue' = revenue]_vars

\* the only order has just been moved to Returned and still counts in the
\* revenue
C27_Witness ==
    /\ lastAction = "updateOrderStatus"
    /\ Len(orders) = 1
    /\ orders[1].status = "Returned"
    /\ revenue = orders[1].total
    /\ revenue > 0

\* C28: the totalOrders counter is the number of orders of the ledger in
\* every state
C28_TotalOrdersIsLedgerLength ==
    totalOrders = Len(orders)

\* two checkouts have placed two orders
C28_Witness ==
    /\ totalOrders = 2
    /\ Len(orders) = 2
    /\ lastAction = "checkout"

\* C29: through the controls, a checkout places an order only while no
\* success timer of an earlier checkout is pending, so at most one timer is
\* pending and the success flag is set exactly while it is; the timer's
\* callback leaves the cart as it finds it
C29_OneSuccessTimer ==
    [][/\ successTimers' <= 1
       /\ showCheckoutSuccess' = (successTimers' = 1)
       /\ Len(orders') > Len(orders) =>
             ~showCheckoutSuccess /\ successTimers = 0
       /\ lastAction' = "checkoutTimeout" => cart' = cart]_vars

\* the timer of the only checkout has just fired on a cart refilled while it
\* was pending
C29_Witness ==
    /\ lastAction = "checkoutTimeout"
    /\ stepsLeft = MaxUISteps - 6
    /\ Len(orders) = 1
    /\ cart # <<>>
    /\ successTimers = 0
    /\ ~showCheckoutSuccess
    /\ ~isCartOpen
    /\ wishlist = <<>>

\* the catalog holds a product of this id
InCatalog(id) == \E k \in 1..Len(products) : products[k].id = id

\* C30: deleteProduct changes the catalog only: the cart, the wishlist and
\* the order ledger are unchanged, so a cart line of a deleted product stays
\* in the cart, counts in the subtotal and goes into the order of a later
\* checkout
C30_DeleteProductFrame ==
    [][/\ lastAction' = "deleteProduct" =>
             /\ UNCHANGED <<cart, wishlist, orders>>
             /\ subtotal' = subtotal
             /\ cartTotal' = cartTotal
       /\ lastAction' = "checkout" /\ cart # <<>> =>
             /\ Head(orders').items = cart
             /\ Head(orders').total = subtotal - discountAmount
             /\ subtotal = Unit * LineSum(Len(cart))]_vars

\* a checkout has just placed an order with a line of a product that is no
\* longer in the catalog, at that line's full price
C30_Witness ==
    /\ lastAction = "checkout"
    /\ Len(orders) = 1
    /\ Len(orders[1].items) = 1
    /\ ~InCatalog(orders[1].items[1].id)
    /\ orders[1].total =
          Unit * orders[1].items[1].price * orders[1].items[1].quantity

=============================================================================
